---------------------------- MODULE Spec2Model ----------------------------
(***************************************************************************)
(* A model of substack_scraper.py: URL discovery (sitemap with feed        *)
(* fallback and keyword filter), the two page fetchers, post extraction,   *)
(* the archive store (Markdown files, HTML files, JSON ledger) and the     *)
(* scrape_posts loop, over repeated invocations of main().                 *)
(*                                                                         *)
(* Strings that the code inspects character by character (URLs, titles,    *)
(* like-count labels) are sequences of one-character strings.  Files are   *)
(* tracked by existence (the set of file names in each directory); their   *)
(* contents are not modelled.  generate_html_file's template handling is   *)
(* reduced to the copy of the ledger it embeds.                            *)
(***************************************************************************)
EXTENDS Integers, Sequences, FiniteSets, TLC

VARIABLES
    variant,        \* "direct" (SubstackScraper) or "premium" (PremiumSubstackScraper)
    sitemap,        \* what GET {base}sitemap.xml answers
    feed,           \* what GET {base}feed.xml answers
    env,            \* per URL: the page the site serves and the disk fault met, once revealed
    pc,             \* position of the process: new, ready, loop, flush, done, crashed
    urls,           \* get_all_post_urls: the list before filter_urls
    post_urls,      \* self.post_urls
    login_state,    \* "none", "ok", "failed": outcome of PremiumSubstackScraper.login
    md,             \* names of the files in md_save_dir
    html,           \* names of the files in html_save_dir
    ledger,         \* data/<writer>.json: [exists, data]
    index_html,     \* substack_html_pages/<writer>.html: the ledger copy it embeds
    num,            \* num_posts_to_scrape of the current scrape_posts call
    idx,            \* position of the for loop in post_urls
    count,          \* scrape_posts: count
    essays_data,    \* scrape_posts: essays_data
    hist            \* history of the run, read by the properties only

vars == <<variant, sitemap, feed, env, pc, urls, post_urls, login_state, md, html,
          ledger, index_html, num, idx, count, essays_data, hist>>

-----------------------------------------------------------------------------
(* Bounds of the model *)

MaxUrls == 2        \* longest sitemap listing drawn in SpecDiscovery
MaxFeed == 1        \* longest feed listing drawn in SpecDiscovery
MaxRuns == 2        \* invocations of main() in one behaviour
MaxLimit == 2       \* largest num_posts_to_scrape drawn
MaxLedger == 2      \* longest pre-existing ledger drawn in SpecLedger
MaxBatch == 2       \* longest essays_data batch drawn in SpecLedger

-----------------------------------------------------------------------------
(* Character strings *)

PA == <<"p", "/", "a">>
QA == <<"q", "/", "a">>
PB == <<"p", "/", "b">>
ABOUT == <<"a", "b", "o", "u", "t">>
ROUNDABOUT == <<"p", "/", "r", "o", "u", "n", "d", "a", "b", "o", "u", "t", "s">>
ABOU == <<"p", "/", "a", "b", "o", "u">>
ARCHIVE == <<"a", "r", "c", "h", "i", "v", "e", "/", "x">>
PODCAST == <<"p", "/", "p", "o", "d", "c", "a", "s", "t">>

AllUrls == {PA, QA, PB, ABOUT, ROUNDABOUT, ABOU, ARCHIVE, PODCAST}

\* self.keywords
keywords == << <<"a", "b", "o", "u", "t">>,
               <<"a", "r", "c", "h", "i", "v", "e">>,
               <<"p", "o", "d", "c", "a", "s", "t">> >>

\* Python's `k in s` on strings: k occurs in s as a contiguous substring.
Contains(k, s) ==
    \E i \in 1..(Len(s) - Len(k) + 1) : SubSeq(s, i, i + Len(k) - 1) = k

\* str.strip(): leading and trailing blanks removed.
RECURSIVE LStrip(_)
LStrip(s) == IF s # <<>> /\ Head(s) = " " THEN LStrip(Tail(s)) ELSE s

RECURSIVE RStrip(_)
RStrip(s) ==
    IF s # <<>> /\ s[Len(s)] = " " THEN RStrip(SubSeq(s, 1, Len(s) - 1)) ELSE s

Strip(s) == RStrip(LStrip(s))

Digits == {"0", "1", "2", "3", "4", "5", "6", "7", "8", "9"}

\* str.isdigit(): non-empty and every character a digit.
IsDigit(s) == s # <<>> /\ \A i \in DOMAIN s : s[i] \in Digits

RECURSIVE SeqsUpTo(_, _)
SeqsUpTo(S, n) ==
    IF n = 0 THEN {<<>>}
    ELSE LET shorter == SeqsUpTo(S, n - 1)
         IN  shorter \cup {Append(q, x) : q \in {r \in shorter : Len(r) = n - 1}, x \in S}

Range(s) == {s[i] : i \in DOMAIN s}

-----------------------------------------------------------------------------
(* URL discovery *)

Raised == [kind |-> "raised"]
Value(v) == [kind |-> "value", value |-> v]

\* An HTTP answer to a listing request: the request itself fails (transport),
\* or answers with a status; a successful answer carries XML that is either
\* malformed or lists URLs.
Transport == [kind |-> "transport", wellformed |-> FALSE, locs |-> <<>>]
NotOk == [kind |-> "notok", wellformed |-> FALSE, locs |-> <<>>]
Malformed == [kind |-> "ok", wellformed |-> FALSE, locs |-> <<>>]
Listing(l) == [kind |-> "ok", wellformed |-> TRUE, locs |-> l]

fetch_urls_from_sitemap(resp) ==
    IF resp.kind = "transport" THEN Raised          \* requests.get raises
    ELSE IF resp.kind = "notok" THEN Value(<<>>)
    ELSE IF ~resp.wellformed THEN Raised            \* ET.fromstring raises ParseError
    ELSE Value(resp.locs)

fetch_urls_from_feed(resp) ==
    IF resp.kind = "transport" THEN Raised
    ELSE IF resp.kind = "notok" THEN Value(<<>>)
    ELSE IF ~resp.wellformed THEN Raised
    ELSE Value(resp.locs)

filter_urls_any(us, kws) ==
    SelectSeq(us, LAMBDA url : \E i \in DOMAIN kws : ~Contains(kws[i], url))

RECURSIVE filter_urls(_, _)
filter_urls(us, kws) ==
    IF us = <<>> THEN <<>>
    ELSE LET url == Head(us)
             rest == filter_urls(Tail(us), kws)
         IN  IF \A i \in DOMAIN kws : ~Contains(kws[i], url)
             THEN <<url>> \o rest
             ELSE rest

\* Returns the raw list and the filtered list, or Raised.
get_all_post_urls(sm, fd) ==
    LET s == fetch_urls_from_sitemap(sm)
    IN  IF s.kind = "raised" THEN Raised
        ELSE IF s.value # <<>>
             THEN Value([raw |-> s.value, filtered |-> filter_urls(s.value, keywords)])
             ELSE LET f == fetch_urls_from_feed(fd)
                  IN  IF f.kind = "raised" THEN Raised
                      ELSE Value([raw |-> f.value,
                                  filtered |-> filter_urls(f.value, keywords)])

-----------------------------------------------------------------------------
(* Pages and the two fetchers *)

None == [kind |-> "none"]

NoElem == [present |-> FALSE, text |-> <<>>]
Elem(t) == [present |-> TRUE, text |-> t]

\* What a post URL answers: a transport error, or a document described by the
\* elements the code selects from it.
FetchError ==
    [kind |-> "error", paywall |-> FALSE, title |-> NoElem, subtitle |-> NoElem,
     date |-> NoElem, likes |-> NoElem, content |-> FALSE]

Page(pw, t, l, c) ==
    [kind |-> "page", paywall |-> pw, title |-> t, subtitle |-> NoElem,
     date |-> NoElem, likes |-> l, content |-> c]

FullPage == Page(FALSE, Elem(<<" ", "T">>), Elem(<<"4", "2">>), TRUE)
PaywalledPage == Page(TRUE, Elem(<<"T">>), Elem(<<"c", "o", "o", "l">>), TRUE)
NoTitlePage == Page(FALSE, NoElem, NoElem, TRUE)
BlankTitlePage == Page(FALSE, Elem(<<" ">>), NoElem, TRUE)
NoContentPage == Page(FALSE, Elem(<<"T">>), NoElem, FALSE)

Responses ==
    {FetchError, FullPage, PaywalledPage, NoTitlePage, BlankTitlePage, NoContentPage}

\* SubstackScraper.get_url_soup
get_url_soup_direct(resp) ==
    IF resp.kind = "error" THEN Raised
    ELSE IF resp.paywall THEN None
    ELSE Value(resp)

\* PremiumSubstackScraper.get_url_soup
get_url_soup_premium(resp) ==
    IF resp.kind = "error" THEN Raised ELSE Value(resp)

get_url_soup_no_paywall_check(v, resp) == get_url_soup_premium(resp)

get_url_soup(v, resp) ==
    IF v = "direct" THEN get_url_soup_direct(resp) ELSE get_url_soup_premium(resp)

\* The sign-in page after submit: the elements with id error-container.
SignInPages == {<<>>, <<[displayed |-> FALSE]>>, <<[displayed |-> TRUE]>>}

is_login_failed(page) == Len(page) > 0 /\ page[1].displayed

login_never_raises(page) == Value("ok")

login(page) == IF is_login_failed(page) THEN Raised ELSE Value("ok")

-----------------------------------------------------------------------------
(* Post extraction *)

extract_post_data(soup) ==
    IF ~soup.title.present \/ Strip(soup.title.text) = <<>> THEN None
    ELSE LET title == Strip(soup.title.text)
             subtitle == IF soup.subtitle.present /\ soup.subtitle.text # <<>>
                         THEN Strip(soup.subtitle.text) ELSE <<>>
             date == IF soup.date.present /\ soup.date.text # <<>>
                     THEN Strip(soup.date.text) ELSE <<"Date not found">>
             like_count == IF soup.likes.present /\ soup.likes.text # <<>>
                              /\ IsDigit(Strip(soup.likes.text))
                           THEN Strip(soup.likes.text) ELSE <<"0">>
         IN  IF ~soup.content THEN None
             ELSE Value([title |-> title, subtitle |-> subtitle,
                         like_count |-> like_count, date |-> date])

-----------------------------------------------------------------------------
(* Archive store *)

RECURSIVE LastSegment(_)
LastSegment(url) ==
    IF url = <<>> \/ url[Len(url)] = "/" THEN <<>>
    ELSE Append(LastSegment(SubSeq(url, 1, Len(url) - 1)), url[Len(url)])

\* url.split("/")[-1] + filetype
get_filename_from_url(url, filetype) == Append(LastSegment(url), filetype)

Faults == {"none", "mdOpen", "mdWrite", "htmlOpen"}

\* save_to_file: a no-op when the file exists; open() may fail before the file
\* is created, write() after it was.
save_to_file(files, name, fault) ==
    IF name \in files THEN [files |-> files, raised |-> FALSE]
    ELSE IF fault = "mdOpen" THEN [files |-> files, raised |-> TRUE]
    ELSE IF fault = "mdWrite" THEN [files |-> files \cup {name}, raised |-> TRUE]
    ELSE [files |-> files \cup {name}, raised |-> FALSE]

\* save_to_html_file: opens for writing whether or not the file exists.
save_to_html_file(files, name, fault) ==
    IF fault = "htmlOpen" THEN [files |-> files, raised |-> TRUE]
    ELSE [files |-> files \cup {name}, raised |-> FALSE]

NoLedger == [exists |-> FALSE, data |-> <<>>]

save_essays_data_overwrite(lg, new) == [exists |-> TRUE, data |-> new]

save_essays_data_no_filter(lg, new) ==
    [exists |-> TRUE, data |-> IF lg.exists THEN lg.data \o new ELSE new]

RECURSIVE NotIn(_, _)
NotIn(new, existing) ==
    IF new = <<>> THEN <<>>
    ELSE IF \E i \in DOMAIN existing : existing[i] = Head(new)
         THEN NotIn(Tail(new), existing)
         ELSE <<Head(new)>> \o NotIn(Tail(new), existing)

save_essays_data_to_json(lg, new) ==
    [exists |-> TRUE,
     data |-> IF lg.exists THEN lg.data \o NotIn(new, lg.data) ELSE new]

-----------------------------------------------------------------------------
(* scrape_posts: one iteration of the for loop *)

md_filepath(name) == <<"md_save_dir", "/">> \o name
html_filepath(name) == <<"html_save_dir", "/">> \o name

Result(mds, htmls, essays, outcome) ==
    [md |-> mds, html |-> htmls, essays |-> essays, outcome |-> outcome]

\* The try body for one url.  e is what the environment does for this url: the
\* response to the page request and the fault the disk shows when writing.
\* outcome: "exists" (the else branch), "continue" (either continue),
\* "exception" (the except clause ran), "saved" (the record was appended).
scrape_one(v, url, e, mds, htmls, essays) ==
    LET md_filename == get_filename_from_url(url, ".md")
        html_filename == get_filename_from_url(url, ".html")
    IN  IF md_filename \in mds THEN Result(mds, htmls, essays, "exists")
        ELSE LET soup == get_url_soup(v, e.resp)
             IN  IF soup.kind = "raised" THEN Result(mds, htmls, essays, "exception")
                 ELSE IF soup.kind = "none" THEN Result(mds, htmls, essays, "continue")
                 ELSE LET post_data == extract_post_data(soup.value)
                      IN  IF post_data.kind = "none"
                          THEN Result(mds, htmls, essays, "continue")
                          ELSE LET w == save_to_file(mds, md_filename, e.fault)
                                   h == save_to_html_file(htmls, html_filename, e.fault)
                                   rec == [title |-> post_data.value.title,
                                           subtitle |-> post_data.value.subtitle,
                                           like_count |-> post_data.value.like_count,
                                           date |-> post_data.value.date,
                                           file_link |-> md_filepath(md_filename),
                                           html_link |-> html_filepath(html_filename)]
                               IN  IF w.raised
                                   THEN Result(w.files, htmls, essays, "exception")
                                   ELSE IF h.raised
                                   THEN Result(w.files, htmls, essays, "exception")
                                   ELSE Result(w.files, h.files, Append(essays, rec),
                                               "saved")

\* `except Exception as e: print(...)`: the exception is swallowed and control
\* falls through to count += 1.
except_propagates(outcome) == FALSE

except_Exception(outcome) == TRUE

\* count += 1 is reached unless the iteration left through `continue`.
reaches_count(outcome) == outcome # "continue"

-----------------------------------------------------------------------------
(* The environment of a post URL, revealed when the URL is first fetched *)

Choice(r, f) == [resp |-> r, fault |-> f]

EnvChoices ==
    {Choice(r, "none") : r \in Responses} \cup {Choice(FullPage, f) : f \in Faults}

Unknown == [known |-> FALSE, choice |-> Choice(FetchError, "none")]

NoEnv == [u \in AllUrls |-> Unknown]

-----------------------------------------------------------------------------
(* History *)

Snapshot == [md |-> md, html |-> html, ledger |-> ledger]

NoLast == [url |-> <<>>, choice |-> Choice(FetchError, "none"), existed |-> FALSE]

InitHist ==
    [runs |-> 1, discovered |-> FALSE, visited |-> 0, fetches |-> 0, excAt |-> 0,
     last |-> NoLast, atBoot |-> Snapshot, atStart |-> Snapshot, same |-> FALSE,
     prevNum |-> -1, flushed |-> FALSE, logins |-> 0]

-----------------------------------------------------------------------------
(* Initial states *)

\* The state of a fresh process over an empty archive.
InitRest ==
    /\ env = NoEnv
    /\ pc = "new"
    /\ urls = <<>>
    /\ post_urls = <<>>
    /\ login_state = "none"
    /\ md = {}
    /\ html = {}
    /\ ledger = NoLedger
    /\ index_html = NoLedger
    /\ num = 0
    /\ idx = 1
    /\ count = 0
    /\ essays_data = <<>>
    /\ hist = InitHist

MainSitemaps ==
    {Listing(<<PA, PB, QA>>), Listing(<<PA, ABOUT, PA>>), NotOk, Transport}

MainFeeds == {Listing(<<PB, PA>>)}

Init ==
    /\ variant \in {"direct", "premium"}
    /\ sitemap \in MainSitemaps
    /\ feed \in MainFeeds
    /\ InitRest

-----------------------------------------------------------------------------
(* Actions *)

\* SubstackScraper.__init__ / PremiumSubstackScraper.__init__, as main() calls
\* them: discovery in the base constructor, then (premium) the login.  An
\* exception leaves main() before scrape_posts is called.
Construct ==
    /\ pc = "new"
    /\ LET d == get_all_post_urls(sitemap, feed)
       IN  \/ /\ d.kind = "raised"
              /\ pc' = "crashed"
              /\ UNCHANGED <<urls, post_urls, login_state, hist>>
           \/ /\ d.kind = "value"
              /\ variant = "direct"
              /\ urls' = d.value.raw
              /\ post_urls' = d.value.filtered
              /\ pc' = "ready"
              /\ hist' = [hist EXCEPT !.discovered = TRUE]
              /\ UNCHANGED login_state
           \/ /\ d.kind = "value"
              /\ variant = "premium"
              /\ urls' = d.value.raw
              /\ post_urls' = d.value.filtered
              /\ \E page \in SignInPages :
                    /\ login_state' = IF \E i \in DOMAIN page : page[i].displayed
                                      THEN "failed" ELSE "ok"
                    /\ pc' = IF login(page).kind = "raised" THEN "crashed" ELSE "ready"
              /\ hist' = [hist EXCEPT !.discovered = TRUE, !.logins = @ + 1]
    /\ UNCHANGED <<variant, sitemap, feed, env, md, html, ledger, index_html, num, idx,
                   count, essays_data>>

\* scrape_posts up to the for loop.
StartRun ==
    /\ pc = "ready"
    /\ \E n \in 0..MaxLimit :
          /\ num' = n
          /\ hist' = [hist EXCEPT !.visited = 0, !.excAt = 0, !.last = NoLast,
                                  !.atStart = Snapshot, !.flushed = FALSE,
                                  !.same = (n = hist.prevNum)]
    /\ essays_data' = <<>>
    /\ count' = 0
    /\ idx' = 1
    /\ pc' = IF post_urls = <<>> THEN "flush" ELSE "loop"
    /\ UNCHANGED <<variant, sitemap, feed, env, urls, post_urls, login_state, md, html,
                   ledger, index_html>>

\* One iteration of the for loop, with the break test that ends it.
ProcessUrl ==
    /\ pc = "loop"
    /\ LET url == post_urls[idx]
           fetched == get_filename_from_url(url, ".md") \notin md
       IN  \E e \in EnvChoices :
              /\ env[url].known => e = env[url].choice
              /\ ~fetched => e = env[url].choice
              /\ LET r == scrape_one(variant, url, e, md, html, essays_data)
                     c == IF reaches_count(r.outcome) THEN count + 1 ELSE count
                     brk == reaches_count(r.outcome) /\ num # 0 /\ c = num
                     h == [hist EXCEPT !.visited = @ + 1,
                                       !.fetches = IF fetched THEN @ + 1 ELSE @,
                                       !.excAt = IF r.outcome = "exception" THEN idx ELSE @,
                                       !.last = [url |-> url, choice |-> e,
                                                 existed |-> ~fetched]]
                 IN  /\ md' = r.md
                     /\ html' = r.html
                     /\ essays_data' = r.essays
                     /\ env' = IF fetched
                               THEN [env EXCEPT ![url] = [known |-> TRUE, choice |-> e]]
                               ELSE env
                     /\ hist' = h
                     /\ IF r.outcome = "exception" /\ ~except_Exception(r.outcome)
                        THEN pc' = "crashed" /\ UNCHANGED <<count, idx>>
                        ELSE /\ count' = c
                             /\ IF brk \/ idx = Len(post_urls)
                                THEN pc' = "flush" /\ idx' = idx
                                ELSE pc' = "loop" /\ idx' = idx + 1
    /\ UNCHANGED <<variant, sitemap, feed, urls, post_urls, login_state, ledger,
                   index_html, num>>

\* After the loop: save_essays_data_to_json, then generate_html_file.
FlushLedger ==
    /\ pc = "flush"
    /\ ledger' = save_essays_data_to_json(ledger, essays_data)
    /\ index_html' = ledger'
    /\ pc' = "done"
    /\ hist' = [hist EXCEPT !.flushed = TRUE, !.prevNum = num]
    /\ UNCHANGED <<variant, sitemap, feed, env, urls, post_urls, login_state, md, html,
                   num, idx, count, essays_data>>

\* main() is invoked again on the same archive.
Restart ==
    /\ pc \in {"done", "crashed"}
    /\ hist.runs < MaxRuns
    /\ pc' = "new"
    /\ urls' = <<>>
    /\ post_urls' = <<>>
    /\ login_state' = "none"
    /\ essays_data' = <<>>
    /\ count' = 0
    /\ idx' = 1
    /\ hist' = [hist EXCEPT !.runs = @ + 1, !.discovered = FALSE, !.fetches = 0,
                            !.logins = 0, !.visited = 0, !.excAt = 0, !.last = NoLast,
                            !.flushed = FALSE, !.same = FALSE, !.atBoot = Snapshot]
    /\ UNCHANGED <<variant, sitemap, feed, env, md, html, ledger, index_html, num>>

\* Between two invocations the site and the disk may come to behave differently.
EnvChange ==
    /\ pc = "done"
    /\ hist.runs < MaxRuns
    /\ env # NoEnv
    /\ env' = NoEnv
    /\ hist' = [hist EXCEPT !.prevNum = -1]
    /\ UNCHANGED <<variant, sitemap, feed, pc, urls, post_urls, login_state, md, html,
                   ledger, index_html, num, idx, count, essays_data>>

Next == Construct \/ StartRun \/ ProcessUrl \/ FlushLedger \/ Restart \/ EnvChange

Spec == Init /\ [][Next]_vars

-----------------------------------------------------------------------------
(* Discovery alone, over every sitemap and feed document within the bounds *)

DiscUrls == {PA, PB, ABOUT, ROUNDABOUT, ABOU, ARCHIVE, PODCAST}

DiscSitemaps ==
    {Transport, NotOk, Malformed} \cup {Listing(l) : l \in SeqsUpTo(DiscUrls, MaxUrls)}

DiscFeeds ==
    {Transport, NotOk, Malformed} \cup {Listing(l) : l \in SeqsUpTo(DiscUrls, MaxFeed)}

InitDiscovery ==
    /\ variant \in {"direct", "premium"}
    /\ sitemap \in DiscSitemaps
    /\ feed \in DiscFeeds
    /\ InitRest

SpecDiscovery == InitDiscovery /\ [][Construct]_vars

-----------------------------------------------------------------------------
(* The ledger merge alone, over every ledger and batch within the bounds *)

Rec(t, l, name) ==
    [title |-> t, subtitle |-> <<>>, like_count |-> l, date |-> <<"Date not found">>,
     file_link |-> md_filepath(name), html_link |-> html_filepath(name)]

LedgerRecords ==
    {Rec(<<"T">>, <<"4", "2">>, get_filename_from_url(PA, ".md")),
     Rec(<<"T">>, <<"0">>, get_filename_from_url(PA, ".md")),
     Rec(<<"T">>, <<"4", "2">>, get_filename_from_url(PB, ".md"))}

InitLedger ==
    /\ variant = "direct"
    /\ sitemap = Listing(<<PA, PB>>)
    /\ feed = NotOk
    /\ env = NoEnv
    /\ pc = "flush"
    /\ urls = <<PA, PB>>
    /\ post_urls = <<PA, PB>>
    /\ login_state = "none"
    /\ md = {}
    /\ html = {}
    /\ ledger \in {NoLedger} \cup
                  {[exists |-> TRUE, data |-> d] : d \in SeqsUpTo(LedgerRecords, MaxLedger)}
    /\ index_html = ledger
    /\ num = 0
    /\ idx = 1
    /\ count = 0
    /\ essays_data \in SeqsUpTo(LedgerRecords, MaxBatch)
    /\ hist = [InitHist EXCEPT !.discovered = TRUE]

\* A later scrape_posts call reaches its end with some batch of new records.
NextBatch ==
    /\ pc = "done"
    /\ hist.runs < MaxRuns
    /\ \E b \in SeqsUpTo(LedgerRecords, MaxBatch) : essays_data' = b
    /\ pc' = "flush"
    /\ hist' = [hist EXCEPT !.runs = @ + 1, !.atStart = Snapshot, !.flushed = FALSE]
    /\ UNCHANGED <<variant, sitemap, feed, env, urls, post_urls, login_state, md, html,
                   ledger, index_html, num, idx, count>>

SpecLedger == InitLedger /\ [][FlushLedger \/ NextBatch]_vars

-----------------------------------------------------------------------------
(* Vocabulary of the properties, stated without the operators of the model *)

NoDup(q) == \A i, j \in DOMAIN q : i # j => q[i] # q[j]

Min(a, b) == IF a <= b THEN a ELSE b

\* k occurs in s at some offset, character by character.
Occurs(k, s) == \E off \in 0..(Len(s) - Len(k)) : \A j \in 1..Len(k) : s[off + j] = k[j]

Clean(u, kws) == \A i \in DOMAIN kws : ~Occurs(kws[i], u)

\* res is src with exactly the elements satisfying Keep kept, in src's order:
\* the k-th element of res is the k-th kept element of src.
IsFilteredOf(res, src, Keep(_)) ==
    LET kept == {i \in DOMAIN src : Keep(src[i])}
    IN  /\ Len(res) = Cardinality(kept)
        /\ \A k \in DOMAIN res :
              \E j \in kept : Cardinality({i \in kept : i <= j}) = k /\ res[k] = src[j]

KeywordSets ==
    {keywords, <<>>, << <<"/">> >>, << <<"b">>, <<"o", "u">> >>, << <<>> >>}

PaywallMarked(resp) == resp.kind = "page" /\ resp.paywall

TitleMissingOrBlank(resp) ==
    /\ resp.kind = "page"
    /\ (~resp.title.present \/ \A i \in DOMAIN resp.title.text : resp.title.text[i] = " ")

ContainerMissing(resp) == resp.kind = "page" /\ ~resp.content

MdName(url) == get_filename_from_url(url, ".md")
HtmlName(url) == get_filename_from_url(url, ".html")

-----------------------------------------------------------------------------
(* Properties *)

\* C1: a run of scrape_posts that follows a completed run with the same limit,
\* the same URL list and an unchanged environment creates no Markdown or HTML
\* file and leaves the ledger as the first run wrote it, with no record twice.
C1_RerunIdempotent ==
    (pc = "done" /\ hist.same) =>
        /\ md = hist.atStart.md
        /\ html = hist.atStart.html
        /\ ledger = hist.atStart.ledger
        /\ NoDup(ledger.data)

C1_Witness ==
    /\ pc = "done"
    /\ hist.same
    /\ hist.visited >= 2
    /\ Len(ledger.data) >= 2

\* C2: with a non-zero limit n a completed run has visited exactly
\* min(n, number of discovered URLs) URLs, whatever their outcomes.
C2_CapCountsEveryAttempt ==
    (pc = "done" /\ num # 0) => hist.visited = Min(num, Len(post_urls))

\* C3: an exception raised for one URL never ends the run: after it the loop
\* goes on, and a finished run has flushed the ledger after visiting every URL
\* or after count reached the limit.
C3_FailureIsolation ==
    /\ hist.excAt # 0 => pc \in {"loop", "flush", "done"}
    /\ pc = "done" =>
          /\ hist.flushed
          /\ ledger.exists
          /\ (hist.visited = Len(post_urls) \/ (num # 0 /\ count = num))

C3_Witness ==
    /\ pc = "done"
    /\ hist.excAt # 0
    /\ hist.visited > hist.excAt
    /\ hist.flushed

\* C4: a flush writes the existing ledger unchanged, followed by the new
\* records that equal none of its entries, in their order; and no step ever
\* removes or changes an entry of an existing ledger.
C4_UnionMerge ==
    [][/\ (pc = "flush" /\ pc' = "done") =>
             LET E == IF ledger.exists THEN ledger.data ELSE <<>>
             IN  /\ ledger'.exists
                 /\ Len(ledger'.data) >= Len(E)
                 /\ SubSeq(ledger'.data, 1, Len(E)) = E
                 /\ IsFilteredOf(SubSeq(ledger'.data, Len(E) + 1, Len(ledger'.data)),
                                 essays_data, LAMBDA d : d \notin Range(E))
       /\ ledger.exists =>
             /\ ledger'.exists
             /\ Len(ledger'.data) >= Len(ledger.data)
             /\ SubSeq(ledger'.data, 1, Len(ledger.data)) = ledger.data]_vars

C4_Witness ==
    /\ pc = "done"
    /\ hist.atStart.ledger.exists
    /\ \E i \in DOMAIN essays_data : essays_data[i] \in Range(hist.atStart.ledger.data)
    /\ \E j \in DOMAIN essays_data : essays_data[j] \notin Range(hist.atStart.ledger.data)
    /\ Len(ledger.data) = Len(hist.atStart.ledger.data) + 1

\* C5: when the sitemap request fails, is malformed or lists nothing,
\* discovery does not raise and returns the filtered feed links (the empty
\* list when the feed fails too).
C5_SitemapFailureNotFatal ==
    (pc # "new" /\ (sitemap.kind # "ok" \/ ~sitemap.wellformed \/ sitemap.locs = <<>>)) =>
        /\ hist.discovered
        /\ post_urls = IF feed.kind = "ok" /\ feed.wellformed
                       THEN filter_urls(feed.locs, keywords) ELSE <<>>

\* The page gives one of the causes for which a post is skipped.
AbsentCause(v, resp) ==
    \/ v = "direct" /\ PaywallMarked(resp)
    \/ TitleMissingOrBlank(resp)
    \/ ContainerMissing(resp)

\* A URL visited in this run whose Markdown file did not exist when the run
\* started, whose page gives a cause to skip it and whose file name no other
\* discovered URL shares, has no Markdown file, no HTML file and no record.
SkippedStaysUnarchived ==
    \A i \in 1..hist.visited :
        LET u == post_urls[i]
        IN  (/\ MdName(u) \notin hist.atStart.md
             /\ env[u].known
             /\ AbsentCause(variant, env[u].choice.resp)
             /\ \A j \in DOMAIN post_urls :
                   MdName(post_urls[j]) = MdName(u) => post_urls[j] = u)
            => /\ MdName(u) \notin md
               /\ HtmlName(u) \notin html
               /\ \A k \in DOMAIN essays_data :
                     essays_data[k].file_link # md_filepath(MdName(u))
               /\ \A k \in DOMAIN ledger.data :
                     ledger.data[k].file_link # md_filepath(MdName(u))

\* C6: an iteration over a URL whose Markdown file does not exist, and whose
\* page carries the paywall marker (Direct HTTP) or lacks a non-blank title or
\* the content container, changes no file and collects no record; and the run
\* leaves such a URL without Markdown file, HTML file and ledger record.
C6_SkippedPersistsNothing ==
    /\ [][(/\ hist'.visited = hist.visited + 1
           /\ ~hist'.last.existed
           /\ AbsentCause(variant, hist'.last.choice.resp))
          => (md' = md /\ html' = html /\ essays_data' = essays_data
                /\ ledger' = ledger)]_vars
    /\ []SkippedStaysUnarchived

C6_Witness ==
    /\ variant = "direct"
    /\ hist.visited >= 2
    /\ ~hist.last.existed
    /\ PaywallMarked(hist.last.choice.resp)
    /\ md # {}
    /\ MdName(hist.last.url) \notin md

\* C7: the premium constructor attempts the login once; after a failed login
\* the process is dead, has fetched no post and has left the archive as it
\* found it; a premium process that fetched a post had logged in.
C7_LoginGate ==
    /\ hist.logins <= 1
    /\ (variant = "premium" /\ pc \in {"ready", "loop", "flush", "done"}) => hist.logins = 1
    /\ login_state = "failed" =>
          /\ pc = "crashed"
          /\ hist.fetches = 0
          /\ Snapshot = hist.atBoot
    /\ (variant = "premium" /\ hist.fetches > 0) => login_state = "ok"

C7_Witness ==
    /\ login_state = "failed"
    /\ post_urls # <<>>
    /\ md # {}
    /\ ledger.exists

\* C8: the list discovery returns holds no URL twice.
C8_Deduplicated == hist.discovered => NoDup(post_urls)

\* C9: filter_urls keeps exactly the URLs containing no keyword, in order, for
\* every keyword set; filtering its result again changes nothing; and no URL
\* of post_urls contains "about", "archive" or "podcast".
C9_FilterExact ==
    hist.discovered =>
        /\ \A kws \in KeywordSets :
              LET r == filter_urls(urls, kws)
              IN  /\ IsFilteredOf(r, urls, LAMBDA u : Clean(u, kws))
                  /\ filter_urls(r, kws) = r
        /\ IsFilteredOf(post_urls, urls, LAMBDA u : Clean(u, keywords))
        /\ \A i \in DOMAIN post_urls : \A k \in DOMAIN keywords :
              ~Occurs(keywords[k], post_urls[i])

C9_Witness ==
    /\ hist.discovered
    /\ urls = <<ROUNDABOUT, ABOU>>
    /\ post_urls = <<ABOU>>

\* C10: after a completed run every discovered URL whose Markdown file exists
\* has its HTML file and a ledger record.
C10_MarkdownSignalSound ==
    pc = "done" =>
        \A i \in DOMAIN post_urls :
            MdName(post_urls[i]) \in md =>
                /\ HtmlName(post_urls[i]) \in html
                /\ \E k \in DOMAIN ledger.data :
                      ledger.data[k].file_link = md_filepath(MdName(post_urls[i]))

=============================================================================
